---- MODULE Spec2Model ----
(***************************************************************************)
(* Joint ancestral reconstruction of gubbins' pyjar                        *)
(* (src/python/gubbins/pyjar.py): rate matrix, per-branch transition       *)
(* matrices, site patterns, the per-pattern reconstruction run by a pool   *)
(* of workers on a shared output alignment, and the driver's reduction of  *)
(* the per-pattern SNP maps into edge lengths.                             *)
(*                                                                         *)
(* Numbers.  Log-probabilities are floats in the source; here they are     *)
(* integers in units of 1/1000 (so the identity matrix that calculate_pij  *)
(* returns for a zero branch has 1000 on its diagonal), and float("-inf")  *)
(* is NegInf.  Branch lengths are in units of 0.1.  The substitution model *)
(* of the reconstruction is the default of jar (no info file): all         *)
(* frequencies 0.25, all rates 1.                                          *)
(***************************************************************************)
EXTENDS Integers, Sequences, FiniteSets, TLC

\* ------------------------------------------------------------------ bounds
NumCols == 2        \* columns of the alignment
MaxThreads == 2     \* largest worker count given to jar
PatCols == 4        \* columns of the alignment in the site-pattern specification

\* --------------------------------------------------------------- constants
NegInf == -1000000000

bases == {"A", "C", "G", "T"}

alignment_sequence_names == <<"a", "b", "c">>

NumTaxa == Len(alignment_sequence_names)

\* ------------------------------------------------------------- rate matrix
RateVals == {1, 2}
FreqVals == {1, 2}

RECURSIVE SeqSum(_, _)
SeqSum(s, k) == IF k = 0 THEN 0 ELSE s[k] + SeqSum(s, k - 1)

\* create_rate_matrix, lines 84-93.  Python indices f[0..3], r[0..5] are
\* f[1..4], r[1..6] here.
create_rate_matrix(f, r) ==
    LET rm == << <<0,         f[1]*r[2], f[1]*r[3], f[1]*r[4]>>,
                 <<f[2]*r[1], 0,         f[2]*r[4], f[2]*r[5]>>,
                 <<f[3]*r[2], f[3]*r[4], 0,         f[3]*r[6]>>,
                 <<f[4]*r[3], f[4]*r[5], f[4]*r[6], 0>> >>
    IN [i \in 1..4 |-> [j \in 1..4 |->
            IF i = j THEN SeqSum(rm[i], 4) * (-1) ELSE rm[i][j]]]

\* ------------------------------------------------------ transition matrices
\* log(expm(t*Q)) for the default model, Q off-diagonal 0.25:
\* P_same(t) = (1 + 3 e^-t)/4, P_diff(t) = (1 - e^-t)/4, t = 0.1, 0.2, 0.3, 0.4
LogPSame == <<-74, -146, -216, -284>>
LogPDiff == <<-3738, -3094, -2737, -2496>>

\* calculate_pij, lines 45-49
calculate_pij(branch_length) ==
    IF branch_length = 0
    THEN [s \in bases |-> [e \in bases |-> IF s = e THEN 1000 ELSE 0]]
    ELSE [s \in bases |-> [e \in bases |->
            IF s = e THEN LogPSame[branch_length] ELSE LogPDiff[branch_length]]]

\* log(base_frequencies[base_matrix[end]]) with f = 0.25 (jar line 275)
LogFreq == [b \in bases |-> -1386]

\* -------------------------------------------------------------------- trees
\* A tree is a record: parent[n] (0 for the seed node), kids[n] (children in
\* child_node_iter order), len[n] (edge length), taxon[n] (leaf label, "" for
\* a node without taxon).  Node 1 is the seed node.
TBin(lx, la, lb, lc) ==
    [parent |-> <<0, 1, 2, 2, 1>>,
     kids   |-> << <<2, 5>>, <<3, 4>>, <<>>, <<>>, <<>> >>,
     len    |-> <<0, lx, la, lb, lc>>,
     taxon  |-> <<"", "", "a", "b", "c">>]

TStar(la, lb, lc) ==
    [parent |-> <<0, 1, 1, 1>>,
     kids   |-> << <<2, 3, 4>>, <<>>, <<>>, <<>> >>,
     len    |-> <<0, la, lb, lc>>,
     taxon  |-> <<"", "a", "b", "c">>]

TreeSet ==
    { TBin(1, 1, 1, 2), TBin(0, 1, 1, 1), TBin(2, 1, 1, 2), TBin(2, 1, 1, 1),
      TStar(1, 2, 3) }

NodesOf(t) == 1..Len(t.parent)
is_leaf(t, n) == Len(t.kids[n]) = 0
KidSet(t, n) == {t.kids[n][i] : i \in 1..Len(t.kids[n])}

RECURSIVE preorder_node_iter(_, _)
RECURSIVE PreKids(_, _, _)
preorder_node_iter(t, n) == <<n>> \o PreKids(t, t.kids[n], 1)
PreKids(t, ks, i) ==
    IF i > Len(ks) THEN <<>>
    ELSE preorder_node_iter(t, ks[i]) \o PreKids(t, ks, i + 1)

RECURSIVE postorder_node_iter(_, _)
RECURSIVE PostKids(_, _, _)
postorder_node_iter(t, n) == PostKids(t, t.kids[n], 1) \o <<n>>
PostKids(t, ks, i) ==
    IF i > Len(ks) THEN <<>>
    ELSE postorder_node_iter(t, ks[i]) \o PostKids(t, ks, i + 1)

IndexIn(s, x) == CHOOSE i \in 1..Len(s) : s[i] = x

\* jar lines 286-303: internal nodes are labelled Node_k in pre-order and get
\* the rows after the taxa; alignment_name_indices maps a label to its row.
InternalPre(t) == SelectSeq(preorder_node_iter(t, 1), LAMBDA n : t.taxon[n] = "")
RowOf_NoOffset(t, n) ==
    IF t.taxon[n] = "" THEN IndexIn(InternalPre(t), n)
    ELSE IndexIn(alignment_sequence_names, t.taxon[n])

RowOf(t, n) ==
    IF t.taxon[n] = "" THEN NumTaxa + IndexIn(InternalPre(t), n)
    ELSE IndexIn(alignment_sequence_names, t.taxon[n])
NumRows(t) == NumTaxa + Len(InternalPre(t))

\* ------------------------------------------------------------ site patterns
\* Leaf columns the alignments are built from, one character per taxon in
\* row order.
ColumnSet ==
    { <<"A", "A", "C">>, <<"A", "C", "-">>, <<"-", "-", "-">>, <<"N", "-", "A">> }

\* alignment[:,x]
ColumnOf(aln, x) == [i \in 1..NumTaxa |-> aln[i][x]]

RECURSIVE get_base_patterns_Prepend(_, _, _)
get_base_patterns_Prepend(aln, x, bp) ==
    IF x > Len(aln[1]) THEN bp
    ELSE LET col == ColumnOf(aln, x)
             hit == {k \in 1..Len(bp) : bp[k].column = col}
         IN IF hit = {}
            THEN get_base_patterns_Prepend(aln, x + 1,
                    Append(bp, [column |-> col, cols |-> <<x>>]))
            ELSE LET k == CHOOSE k \in hit : TRUE
                 IN get_base_patterns_Prepend(aln, x + 1,
                        [bp EXCEPT ![k].cols = <<x>> \o @])

\* get_base_patterns, lines 95-109: a dict in insertion order, as a sequence
\* of [column, cols].
RECURSIVE get_base_patterns(_, _, _)
get_base_patterns(aln, x, bp) ==
    IF x > Len(aln[1]) THEN bp
    ELSE LET col == ColumnOf(aln, x)
             hit == {k \in 1..Len(bp) : bp[k].column = col}
         IN IF hit = {}
            THEN get_base_patterns(aln, x + 1, Append(bp, [column |-> col, cols |-> <<x>>]))
            ELSE LET k == CHOOSE k \in hit : TRUE
                 IN get_base_patterns(aln, x + 1,
                        [bp EXCEPT ![k].cols = Append(@, x)])

\* --------------------------------------------- reconstruct_alignment_column
\* The iteration order of the Python set columnbases is fixed by the string
\* hashes of the process; a process iterates it in one of these orders.
Orders == { <<"A", "C", "G", "T">>, <<"T", "G", "C", "A">> }

\* lines 117-122
ColumnBases(column) == {column[i] : i \in 1..Len(column)} \cap bases
BaseOf(column, name) == column[IndexIn(alignment_sequence_names, name)]
SetIter(ord, S) == SelectSeq(ord, LAMBDA b : b \in S)

\* c = sum of child.L[end] over node.child_node_iter(), lines 169-171, 186-188
RECURSIVE ChildSum(_, _, _, _)
ChildSum(L, ks, i, end) ==
    IF i > Len(ks) THEN 0 ELSE L[ks[i]][end] + ChildSum(L, ks, i + 1, end)

\* lines 168-178 and 185-194: for end in columnbases, for start in
\* columnbases, keep the first end whose score is strictly larger.  score is
\* pij[start][end] for a non-root node and log(f[end]) for the root.
RECURSIVE Relax(_, _, _, _, _, _)
Relax(iter, k, score, L, ks, LC) ==
    IF k > Len(iter) THEN LC
    ELSE LET end == iter[k]
             c   == ChildSum(L, ks, 1, end)
             upd == {s \in DOMAIN LC.L : score[s][end] + c > LC.L[s]}
         IN Relax(iter, k + 1, score, L, ks,
                  [L |-> [s \in DOMAIN LC.L |->
                            IF s \in upd THEN score[s][end] + c ELSE LC.L[s]],
                   C |-> [s \in DOMAIN LC.C |->
                            IF s \in upd THEN end ELSE LC.C[s]]])

\* lines 164-166, 182-184
EmptyLC(cb) == [L |-> [b \in cb |-> NegInf], C |-> [b \in cb |-> "None"]]

\* lines 139-151: node.L and node.C of a leaf
LeafLC(pij, y) ==
    IF y \in bases
    THEN [L |-> [i \in bases |-> pij[i][y]], C |-> [i \in bases |-> y]]
    ELSE [L |-> [i \in bases |-> pij[i][i]], C |-> [i \in bases |-> i]]

\* lines 157-178: node.L and node.C of a non-root internal node
InternalLC(t, n, iter, L) ==
    Relax(iter, 1, calculate_pij(t.len[n]), L, t.kids[n],
          EmptyLC({iter[i] : i \in 1..Len(iter)}))

\* lines 133-178: the post-order loop over the non-root nodes.  st holds the
\* node annotations L, C (and r) of the worker's tree.
RECURSIVE PostOrderLoop(_, _, _, _, _, _)
PostOrderLoop(t, po, k, column, iter, st) ==
    IF k > Len(po) THEN st
    ELSE LET n  == po[k]
             lc == IF is_leaf(t, n)
                   THEN LeafLC(calculate_pij(t.len[n]), BaseOf(column, t.taxon[n]))
                   ELSE InternalLC(t, n, iter, st.L)
         IN IF t.parent[n] = 0
            THEN PostOrderLoop(t, po, k + 1, column, iter, st)
            ELSE PostOrderLoop(t, po, k + 1, column, iter,
                    [st EXCEPT !.L[n] = lc.L, !.C[n] = lc.C])

\* lines 196-203: max_root_base
RECURSIVE MaxRootBase(_, _, _, _, _)
MaxRootBase(iter, k, LC, best, bestL) ==
    IF k > Len(iter) THEN best
    ELSE IF LC.L[iter[k]] > bestL
         THEN MaxRootBase(iter, k + 1, LC, LC.C[iter[k]], LC.L[iter[k]])
         ELSE MaxRootBase(iter, k + 1, LC, best, bestL)

\* lines 180-203: after the loop `node` is the last node of the post-order,
\* the seed node.
RootStep(t, iter, st) ==
    LET n  == postorder_node_iter(t, 1)[Len(postorder_node_iter(t, 1))]
        lc == Relax(iter, 1, [s \in bases |-> LogFreq], st.L, t.kids[n],
                    EmptyLC({iter[i] : i \in 1..Len(iter)}))
    IN [st EXCEPT !.L[n] = lc.L, !.C[n] = lc.C,
                  !.r[n] = MaxRootBase(iter, 1, lc, "None", NegInf)]

\* lines 206-214: the pre-order loop; node.C[i] raises KeyError when i is
\* not a key of node.C
RECURSIVE PreOrderLoop(_, _, _, _)
PreOrderLoop(t, pre, k, st) ==
    IF k > Len(pre) THEN [st |-> st, err |-> "ok"]
    ELSE LET n == pre[k]
         IN IF t.parent[n] = 0 THEN PreOrderLoop(t, pre, k + 1, st)
            ELSE LET i == st.r[t.parent[n]]
                 IN IF i \notin DOMAIN st.C[n]
                    THEN [st |-> st, err |-> "KeyError"]
                    ELSE PreOrderLoop(t, pre, k + 1, [st EXCEPT !.r[n] = st.C[n][i]])

\* lines 217-221: rootlens.sort() orders [edge_length, child, child.r] lists;
\* two children of equal edge length are compared as nodes, which have no
\* order (TypeError).  With up to three children every tied pair is compared.
SeedTie(t) ==
    \E x, y \in KidSet(t, 1) : x # y /\ t.len[x] = t.len[y]
SeedChild(t) ==
    CHOOSE x \in KidSet(t, 1) : \A y \in KidSet(t, 1) : t.len[y] <= t.len[x]
SeedStep(t, st) ==
    IF SeedTie(t) THEN [st |-> st, err |-> "TypeError"]
    ELSE [st |-> [st EXCEPT !.r[1] = st.r[SeedChild(t)]], err |-> "ok"]

FixR_AnyGap(t, n, column, r) ==
    IF is_leaf(t, n) THEN BaseOf(column, t.taxon[n])
    ELSE IF \A ch \in KidSet(t, n) : r[ch] \in bases THEN r[n] ELSE "-"

\* lines 226-235: node.r of one node of the fix-up loop
FixR(t, n, column, r) ==
    IF is_leaf(t, n) THEN BaseOf(column, t.taxon[n])
    ELSE IF \E ch \in KidSet(t, n) : r[ch] \in bases THEN r[n] ELSE "-"

WriteCols_WholeRow(t, n, cols) == 1..NumCols

\* line 236: out_aln[alignment_name_indices[label], base_patterns[column]] = node.r
WriteCols(t, n, cols) == {cols[i] : i \in 1..Len(cols)}
WriteAln(aln, t, n, cols, ch) ==
    [row \in DOMAIN aln |-> [x \in DOMAIN aln[row] |->
        IF row = RowOf(t, n) /\ x \in WriteCols(t, n, cols) THEN ch ELSE aln[row][x]]]

\* line 236: the index list base_patterns[column] assigns once per entry
WriteTimes(t, n, cols, row, x) ==
    IF row = RowOf(t, n) THEN Cardinality({i \in 1..Len(cols) : cols[i] = x}) ELSE 0

NodeSnps_PerPattern(t, r, cols) ==
    [n \in NodesOf(t) |->
        IF t.parent[n] # 0 /\ r[n] \in bases /\ r[t.parent[n]] \in bases
           /\ r[n] # r[t.parent[n]]
        THEN 1 ELSE 0]

\* lines 239-248: node_snps, keyed by node (labels are unique)
NodeSnps(t, r, cols) ==
    [n \in NodesOf(t) |->
        IF t.parent[n] # 0 /\ r[n] \in bases /\ r[t.parent[n]] \in bases
           /\ r[n] # r[t.parent[n]]
        THEN Len(cols) ELSE 0]

\* ------------------------------------------------------------------- state
VARIABLES
    tree,           \* the rooted tree read by jar
    alignment,      \* the input alignment, one row per taxon
    base_patterns,  \* get_base_patterns(alignment)
    threads,        \* worker count of the pool
    order,          \* per worker process: iteration order of a set of bases
    out_aln,        \* the shared output alignment (rows: taxa, then Node_k)
    writers,        \* per cell of out_aln: the calls (pattern indices) that wrote it
    nwrites,        \* per cell of out_aln: the number of writes by the workers
    pc,             \* per worker: position in reconstruct_alignment_column
    task,           \* per worker: index of the pattern being reconstructed
    ann,            \* per worker: the L, C and r attributes on its tree's nodes
    fixIdx,         \* per worker: position of the fix-up loop in the post-order
    results,        \* reconstruction_results, per pattern
    next,           \* next pattern pool.map hands out
    phase,          \* "run", "done", "failed"; "rm" in the rate-matrix specification
    edge_length,    \* node.edge_length
    freqs, rates, rm  \* f, r and create_rate_matrix(f, r)

vars == <<tree, alignment, base_patterns, threads, order, out_aln, writers, nwrites, pc,
          task, ann, fixIdx, results, next, phase, edge_length, freqs, rates, rm>>

Workers == 1..MaxThreads

Alignments ==
    {[i \in 1..NumTaxa |-> [x \in 1..NumCols |-> cs[x][i]]] :
        cs \in [1..NumCols -> ColumnSet]}

\* jar lines 255-260, 286-298, 313-316: taxa rows hold the input sequences,
\* the rows of the internal nodes hold "?"
InitAln(t, aln) ==
    [row \in 1..NumRows(t) |-> [x \in 1..NumCols |->
        IF row <= NumTaxa THEN aln[row][x] ELSE "?"]]

NoAnn(t) ==
    [L |-> [n \in NodesOf(t) |-> [b \in {} |-> 0]],
     C |-> [n \in NodesOf(t) |-> [b \in {} |-> ""]],
     r |-> [n \in NodesOf(t) |-> "unset"]]

NoSnps(t) == [n \in NodesOf(t) |-> 0]

Init ==
    /\ tree \in TreeSet
    /\ alignment \in Alignments
    /\ base_patterns = get_base_patterns(alignment, 1, <<>>)
    /\ threads \in 1..MaxThreads
    /\ order \in [Workers -> Orders]
    /\ \A w \in Workers : w > threads => order[w] = order[1]
    /\ out_aln = InitAln(tree, alignment)
    /\ writers = [row \in 1..NumRows(tree) |-> [x \in 1..NumCols |-> {}]]
    /\ nwrites = [row \in 1..NumRows(tree) |-> [x \in 1..NumCols |-> 0]]
    /\ pc = [w \in Workers |-> "idle"]
    /\ task = [w \in Workers |-> 0]
    /\ ann = [w \in Workers |-> NoAnn(tree)]
    /\ fixIdx = [w \in Workers |-> 0]
    /\ results = [k \in 1..Len(base_patterns) |-> [err |-> "pending", snps |-> NoSnps(tree)]]
    /\ next = 1
    /\ phase = "run"
    /\ edge_length = tree.len
    /\ freqs = <<1, 1, 1, 1>>
    /\ rates = <<1, 1, 1, 1, 1, 1>>
    /\ rm = create_rate_matrix(freqs, rates)

Column(w) == base_patterns[task[w]].column
Bucket(w) == base_patterns[task[w]].cols
Iter(w) == SetIter(order[w], ColumnBases(Column(w)))

inputs == <<tree, alignment, base_patterns, threads, order, freqs, rates, rm>>

\* jar lines 320-331: pool.map hands the patterns out in order, each to a
\* worker that is free
Dispatch(w) ==
    /\ phase = "run" /\ w <= threads /\ pc[w] = "idle"
    /\ next <= Len(base_patterns)
    /\ task' = [task EXCEPT ![w] = next]
    /\ next' = next + 1
    /\ pc' = [pc EXCEPT ![w] = "post"]
    /\ UNCHANGED <<inputs, out_aln, writers, nwrites, ann, fixIdx, results, phase, edge_length>>

\* reconstruct_alignment_column lines 133-203
PostOrder(w) ==
    /\ pc[w] = "post"
    /\ ann' = [ann EXCEPT ![w] =
                RootStep(tree, Iter(w),
                    PostOrderLoop(tree, postorder_node_iter(tree, 1), 1,
                                  Column(w), Iter(w), ann[w]))]
    /\ pc' = [pc EXCEPT ![w] = "pre"]
    /\ UNCHANGED <<inputs, out_aln, writers, nwrites, task, fixIdx, results, next, phase, edge_length>>

\* the call raises: the pool stores the exception as the result
Raise(w, e) ==
    /\ results' = [results EXCEPT ![task[w]] = [err |-> e, snps |-> NoSnps(tree)]]
    /\ pc' = [pc EXCEPT ![w] = "idle"]

\* lines 206-214
PreOrder(w) ==
    /\ pc[w] = "pre"
    /\ LET res == PreOrderLoop(tree, preorder_node_iter(tree, 1), 1, ann[w])
       IN /\ ann' = [ann EXCEPT ![w] = res.st]
          /\ IF res.err = "ok"
             THEN pc' = [pc EXCEPT ![w] = "seed"] /\ UNCHANGED results
             ELSE Raise(w, res.err)
    /\ UNCHANGED <<inputs, out_aln, writers, nwrites, task, fixIdx, next, phase, edge_length>>

\* lines 217-221
Seed(w) ==
    /\ pc[w] = "seed"
    /\ LET res == SeedStep(tree, ann[w])
       IN /\ ann' = [ann EXCEPT ![w] = res.st]
          /\ IF res.err = "ok"
             THEN /\ pc' = [pc EXCEPT ![w] = "fix"]
                  /\ fixIdx' = [fixIdx EXCEPT ![w] = 1]
                  /\ UNCHANGED results
             ELSE Raise(w, res.err) /\ UNCHANGED fixIdx
    /\ UNCHANGED <<inputs, out_aln, writers, nwrites, task, next, phase, edge_length>>

\* lines 225-236: one node of the fix-up loop
FixNode(w) ==
    /\ pc[w] = "fix"
    /\ LET po == postorder_node_iter(tree, 1)
           n  == po[fixIdx[w]]
           ch == FixR(tree, n, Column(w), ann[w].r)
       IN /\ ann' = [ann EXCEPT ![w].r[n] = ch]
          /\ IF is_leaf(tree, n)
             THEN UNCHANGED <<out_aln, writers, nwrites>>
             ELSE /\ out_aln' = WriteAln(out_aln, tree, n, Bucket(w), ch)
                  /\ writers' = [row \in DOMAIN writers |-> [x \in DOMAIN writers[row] |->
                        IF row = RowOf(tree, n) /\ x \in WriteCols(tree, n, Bucket(w))
                        THEN writers[row][x] \cup {task[w]} ELSE writers[row][x]]]
                  /\ nwrites' = [row \in DOMAIN nwrites |-> [x \in DOMAIN nwrites[row] |->
                        nwrites[row][x] + WriteTimes(tree, n, Bucket(w), row, x)]]
          /\ IF fixIdx[w] = Len(po)
             THEN pc' = [pc EXCEPT ![w] = "snps"] /\ UNCHANGED fixIdx
             ELSE fixIdx' = [fixIdx EXCEPT ![w] = @ + 1] /\ UNCHANGED pc
    /\ UNCHANGED <<inputs, task, results, next, phase, edge_length>>

\* lines 238-248: the call returns node_snps
CountSnps(w) ==
    /\ pc[w] = "snps"
    /\ results' = [results EXCEPT ![task[w]] =
                    [err |-> "ok", snps |-> NodeSnps(tree, ann[w].r, Bucket(w))]]
    /\ pc' = [pc EXCEPT ![w] = "idle"]
    /\ UNCHANGED <<inputs, out_aln, writers, nwrites, task, ann, fixIdx, next, phase, edge_length>>

AllReturned == \A k \in DOMAIN results : results[k].err # "pending"
SomeRaised == \E k \in DOMAIN results : results[k].err \notin {"pending", "ok"}

\* sum of reconstruction_results[x][label] over x, lines 347-352
RECURSIVE SumSnps(_, _, _)
SumSnps(res, k, n) == IF k = 0 THEN 0 ELSE res[k].snps[n] + SumSnps(res, k - 1, n)

\* jar lines 333-352: pool.map has returned; the alignment is printed from
\* out_aln and the edge lengths become SNP counts
Combine ==
    /\ phase = "run" /\ AllReturned /\ ~SomeRaised
    /\ edge_length' = [n \in NodesOf(tree) |-> 0 + SumSnps(results, Len(results), n)]
    /\ phase' = "done"
    /\ UNCHANGED <<inputs, out_aln, writers, nwrites, pc, task, ann, fixIdx, results, next>>

\* jar lines 320-331: pool.map re-raises the exception of a call once every
\* call has returned; jar ends without output
Abort ==
    /\ phase = "run" /\ AllReturned /\ SomeRaised
    /\ phase' = "failed"
    /\ UNCHANGED <<inputs, out_aln, writers, nwrites, pc, task, ann, fixIdx, results, next, edge_length>>

Next ==
    \/ \E w \in Workers : Dispatch(w)
    \/ \E w \in Workers : PostOrder(w)
    \/ \E w \in Workers : PreOrder(w)
    \/ \E w \in Workers : Seed(w)
    \/ \E w \in Workers : FixNode(w)
    \/ \E w \in Workers : CountSnps(w)
    \/ Combine
    \/ Abort

Spec == Init /\ [][Next]_vars

\* ------------------------------------------- the rate-matrix specification
\* jar lines 268-283: f and r come from the info file; rm = create_rate_matrix(f, r)
InitRM ==
    /\ freqs \in [1..4 -> FreqVals]
    /\ rates \in [1..6 -> RateVals]
    /\ rm = [i \in 1..4 |-> [j \in 1..4 |-> 0]]
    /\ phase = "rm"
    /\ tree = TStar(1, 2, 3)
    /\ alignment = [i \in 1..NumTaxa |-> [x \in 1..NumCols |-> "A"]]
    /\ base_patterns = get_base_patterns(alignment, 1, <<>>)
    /\ threads = 1
    /\ order = [w \in Workers |-> <<"A", "C", "G", "T">>]
    /\ out_aln = InitAln(tree, alignment)
    /\ writers = [row \in 1..NumRows(tree) |-> [x \in 1..NumCols |-> {}]]
    /\ nwrites = [row \in 1..NumRows(tree) |-> [x \in 1..NumCols |-> 0]]
    /\ pc = [w \in Workers |-> "idle"]
    /\ task = [w \in Workers |-> 0]
    /\ ann = [w \in Workers |-> NoAnn(tree)]
    /\ fixIdx = [w \in Workers |-> 0]
    /\ results = [k \in 1..Len(base_patterns) |-> [err |-> "pending", snps |-> NoSnps(tree)]]
    /\ next = 1
    /\ edge_length = tree.len

BuildRM ==
    /\ phase = "rm"
    /\ rm' = create_rate_matrix(freqs, rates)
    /\ phase' = "rmdone"
    /\ UNCHANGED <<tree, alignment, base_patterns, threads, order, out_aln, writers, nwrites,
                   pc, task, ann, fixIdx, results, next, edge_length, freqs, rates>>

NextRM == BuildRM

SpecRM == InitRM /\ [][NextRM]_vars

\* ------------------------------------------ the site-pattern specification
\* get_base_patterns(alignment, verbose) on an alignment of PatCols columns
InitBP ==
    /\ alignment \in {[i \in 1..NumTaxa |-> [x \in 1..PatCols |-> cs[x][i]]] :
                        cs \in [1..PatCols -> ColumnSet]}
    /\ base_patterns = <<>>
    /\ phase = "bp"
    /\ tree = TStar(1, 2, 3)
    /\ threads = 1
    /\ order = [w \in Workers |-> <<"A", "C", "G", "T">>]
    /\ out_aln = <<>>
    /\ writers = <<>>
    /\ nwrites = <<>>
    /\ pc = [w \in Workers |-> "idle"]
    /\ task = [w \in Workers |-> 0]
    /\ ann = [w \in Workers |-> NoAnn(tree)]
    /\ fixIdx = [w \in Workers |-> 0]
    /\ results = <<>>
    /\ next = 1
    /\ edge_length = tree.len
    /\ freqs = <<1, 1, 1, 1>>
    /\ rates = <<1, 1, 1, 1, 1, 1>>
    /\ rm = create_rate_matrix(freqs, rates)

FindPatterns ==
    /\ phase = "bp"
    /\ base_patterns' = get_base_patterns(alignment, 1, <<>>)
    /\ phase' = "bpdone"
    /\ UNCHANGED <<tree, alignment, threads, order, out_aln, writers, nwrites,
                   pc, task, ann, fixIdx, results, next, edge_length, freqs, rates, rm>>

NextBP == FindPatterns

SpecBP == InitBP /\ [][NextBP]_vars

\* ------------------------------------------- the whole call, and jar with
\* one worker, as functions of their inputs
\* lines 225-236
RECURSIVE FixLoop(_, _, _, _, _, _, _)
FixLoop(t, po, k, column, cols, r, aln) ==
    IF k > Len(po) THEN [r |-> r, aln |-> aln]
    ELSE LET n  == po[k]
             ch == FixR(t, n, column, r)
         IN FixLoop(t, po, k + 1, column, cols, [r EXCEPT ![n] = ch],
                    IF is_leaf(t, n) THEN aln ELSE WriteAln(aln, t, n, cols, ch))

\* lines 111-248
reconstruct_alignment_column(t, pat, ord, st, aln) ==
    LET iter == SetIter(ord, ColumnBases(pat.column))
        s1   == RootStep(t, iter,
                    PostOrderLoop(t, postorder_node_iter(t, 1), 1, pat.column, iter, st))
        p    == PreOrderLoop(t, preorder_node_iter(t, 1), 1, s1)
        sd   == SeedStep(t, p.st)
        fx   == FixLoop(t, postorder_node_iter(t, 1), 1, pat.column, pat.cols, sd.st.r, aln)
    IN IF p.err # "ok" THEN [err |-> p.err, st |-> p.st, aln |-> aln, snps |-> NoSnps(t)]
       ELSE IF sd.err # "ok" THEN [err |-> sd.err, st |-> sd.st, aln |-> aln, snps |-> NoSnps(t)]
       ELSE [err |-> "ok", st |-> [sd.st EXCEPT !.r = fx.r], aln |-> fx.aln,
             snps |-> NodeSnps(t, fx.r, pat.cols)]

\* jar lines 320-352 with one worker that handles the patterns in order and
\* iterates sets in order ord
RECURSIVE JarOne(_, _, _, _, _)
JarOne(t, bp, k, ord, acc) ==
    IF k > Len(bp) THEN acc
    ELSE LET res == reconstruct_alignment_column(t, bp[k], ord, acc.st, acc.aln)
         IN JarOne(t, bp, k + 1, ord,
                [st   |-> res.st,
                 aln  |-> res.aln,
                 err  |-> IF acc.err = "ok" THEN res.err ELSE acc.err,
                 edge |-> [n \in NodesOf(t) |-> acc.edge[n] + res.snps[n]]])

SingleWorkerRun(ord) ==
    JarOne(tree, base_patterns, 1, ord,
           [st |-> NoAnn(tree), aln |-> InitAln(tree, alignment), err |-> "ok",
            edge |-> NoSnps(tree)])

\* ------------------------------------------------------------------ claims
Internal(t) == {n \in NodesOf(t) : ~is_leaf(t, n)}
ColsOf(k) == {base_patterns[k].cols[i] : i \in 1..Len(base_patterns[k].cols)}
AllConcrete(column) == \A i \in 1..Len(column) : column[i] \in bases

\* log pi[r_root] + sum over the non-root nodes z of logP_z[r_parent -> r_z],
\* the leaves carrying their observed base
NodeVal(t, column, asg, n) ==
    IF is_leaf(t, n) THEN BaseOf(column, t.taxon[n]) ELSE asg[n]
RECURSIVE BranchScore(_, _, _, _)
BranchScore(t, column, asg, n) ==
    IF n = 0 THEN 0
    ELSE (IF t.parent[n] = 0 THEN LogFreq[asg[n]]
          ELSE calculate_pij(t.len[n])[NodeVal(t, column, asg, t.parent[n])]
                                     [NodeVal(t, column, asg, n)])
         + BranchScore(t, column, asg, n - 1)
JointScore(t, column, asg) == BranchScore(t, column, asg, Len(t.parent))

\* C1: for a pattern whose leaves all carry a concrete base, the bases emitted
\* for the internal nodes (seed included) maximise the joint score over all
\* assignments of bases of columnbases to the internal nodes.
C1_JointML ==
    \A w \in Workers :
        (pc[w] = "snps" /\ AllConcrete(Column(w))) =>
            \A asg \in [Internal(tree) -> ColumnBases(Column(w))] :
                JointScore(tree, Column(w), asg)
                    <= JointScore(tree, Column(w), ann[w].r)

\* C2: no cell of the shared output alignment is written by two calls; a
\* call writes only columns of its own pattern's bucket, and the buckets of
\* distinct patterns are disjoint.
C2_DisjointWrites ==
    /\ \A row \in DOMAIN writers : \A x \in DOMAIN writers[row] :
          /\ Cardinality(writers[row][x]) <= 1
          /\ \A k \in writers[row][x] : x \in ColsOf(k)
    /\ \A k1, k2 \in DOMAIN base_patterns : k1 # k2 => ColsOf(k1) \cap ColsOf(k2) = {}

\* two workers are in the middle of their fix-up loops and each has written
C2_Witness ==
    \E w1, w2 \in Workers :
        /\ w1 # w2 /\ pc[w1] = "fix" /\ pc[w2] = "fix"
        /\ \E row \in DOMAIN writers : \E x \in DOMAIN writers[row] : task[w1] \in writers[row][x]
        /\ \E row \in DOMAIN writers : \E x \in DOMAIN writers[row] : task[w2] \in writers[row][x]

\* C3: the alignment and the edge lengths jar ends with are those of a run
\* with one worker, whatever set order that run's process has.
C3_WorkerIndependence ==
    phase = "done" =>
        \A o \in Orders :
            /\ SingleWorkerRun(o).err = "ok"
            /\ out_aln = SingleWorkerRun(o).aln
            /\ edge_length = SingleWorkerRun(o).edge

\* the character jar prints for node n at column x
Emitted(n, x) == out_aln[RowOf(tree, n)][x]
DiffCols(n) ==
    {x \in 1..NumCols :
        /\ Emitted(n, x) \in bases /\ Emitted(tree.parent[n], x) \in bases
        /\ Emitted(n, x) # Emitted(tree.parent[n], x)}

\* C4: after jar, the edge length of a non-root node is the number of columns
\* at which its emitted character and its parent's are both bases and
\* differ; the root's edge length is 0.
C4_EdgeLengthIsSnpCount ==
    phase = "done" =>
        \A n \in NodesOf(tree) :
            /\ edge_length[n] >= 0
            /\ edge_length[n] = IF tree.parent[n] = 0 THEN 0 ELSE Cardinality(DiffCols(n))

\* jar has ended and a branch carries the SNPs of a pattern with two columns
C4_Witness ==
    /\ phase = "done"
    /\ \E n \in NodesOf(tree) : edge_length[n] >= 2
    /\ \E k \in DOMAIN base_patterns : Len(base_patterns[k].cols) >= 2

\* index in (AC, AG, AT, CG, CT, GT) of the unordered pair {i, j}
PairIdx(i, j) ==
    LET lo == IF i < j THEN i ELSE j
        hi == IF i < j THEN j ELSE i
    IN CASE lo = 1 -> hi - 1 [] lo = 2 -> hi + 1 [] OTHER -> 6

\* C5: every off-diagonal Q[i][j] is pi[i] * rho(i,j) with rho the rate of
\* the unordered pair {i,j}, and every row of Q sums to zero.
C5_RateMatrix ==
    phase = "rmdone" =>
        /\ \A i, j \in 1..4 : i # j => rm[i][j] = freqs[i] * rates[PairIdx(i, j)]
        /\ \A i \in 1..4 : SeqSum(rm[i], 4) = 0

\* C6: the result of a call does not depend on the iteration order of the
\* set columnbases: a process with any other set order reconstructs the same
\* characters and counts the same SNPs for the pattern.
C6_StableTiebreak ==
    \A w \in Workers :
        pc[w] = "snps" =>
            \A o \in Orders :
                LET alt == reconstruct_alignment_column(tree, base_patterns[task[w]], o,
                                                        NoAnn(tree), out_aln)
                IN /\ alt.err = "ok"
                   /\ alt.st.r = ann[w].r
                   /\ alt.snps = NodeSnps(tree, ann[w].r, Bucket(w))

\* C7: a call on a pattern without any concrete base returns normally, with
\* "-" in every internal row at the columns of the bucket and a SNP map of
\* zeros.
C7_AllGapColumn ==
    \A k \in DOMAIN results :
        (ColumnBases(base_patterns[k].column) = {} /\ results[k].err # "pending") =>
            /\ results[k].err = "ok"
            /\ \A n \in NodesOf(tree) : results[k].snps[n] = 0
            /\ \A z \in Internal(tree) : \A x \in ColsOf(k) : Emitted(z, x) = "-"

\* C8: after the pre-order pass, a non-root internal node whose edge length
\* is 0 carries the base of its parent.
C8_ZeroBranchEqualsParent ==
    \A w \in Workers :
        (pc[w] = "seed" /\ ColumnBases(Column(w)) # {}) =>
            \A x \in Internal(tree) :
                (tree.parent[x] # 0 /\ tree.len[x] = 0) =>
                    ann[w].r[x] = ann[w].r[tree.parent[x]]

\* C9: every call gets past the choice of the seed's child, also when edge
\* lengths tie, and the character emitted for the seed is the final r (after
\* gap propagation and the reset of the leaves) of the seed's child with the
\* largest edge length.
C9_SeedAdoptsLongestChild ==
    \A k \in DOMAIN results :
        /\ results[k].err # "TypeError"
        /\ results[k].err = "ok" =>
              \A x \in ColsOf(k) : Emitted(1, x) = Emitted(SeedChild(tree), x)

RECURSIVE SubtreeLeaves(_, _)
SubtreeLeaves(t, n) ==
    IF is_leaf(t, n) THEN {n}
    ELSE UNION {SubtreeLeaves(t, ch) : ch \in KidSet(t, n)}

\* the fix-up loop of worker w has handled node z
Fixed(w, z) ==
    \/ pc[w] = "snps"
    \/ pc[w] = "fix" /\ fixIdx[w] > IndexIn(postorder_node_iter(tree, 1), z)

C10_State ==
    \A w \in Workers : \A z \in Internal(tree) :
        (Fixed(w, z) /\ ColumnBases(Column(w)) # {}) =>
            LET e == ann[w].r[z]
            IN /\ (e = "-") <=> (\A ch \in KidSet(tree, z) : ann[w].r[ch] \notin bases)
               /\ (e = "-") <=> (\A lf \in SubtreeLeaves(tree, z) :
                                    BaseOf(Column(w), tree.taxon[lf]) \notin bases)
               /\ e # "-" => e \in ColumnBases(Column(w))
               /\ \A x \in ColsOf(task[w]) : Emitted(z, x) = e

C10_Step ==
    \A w \in Workers : \A z \in Internal(tree) :
        (pc[w] = "fix" /\ postorder_node_iter(tree, 1)[fixIdx[w]] = z) =>
            (ann'[w].r[z] = "-" \/ ann'[w].r[z] = ann[w].r[z])

\* C10: for a pattern with a concrete base, the character emitted for an
\* internal node is "-" exactly when the final r of each of its children is
\* not a base, which is exactly when no leaf below it carries a base;
\* otherwise it is the base the node had before the fix-up, a member of
\* columnbases.
C10_GapPropagation == []C10_State /\ [][C10_Step]_vars

\* a call on a pattern with a concrete base has finished its fix-up with one
\* internal node made a gap and another keeping its base
C10_Witness ==
    \E w \in Workers :
        /\ pc[w] = "snps" /\ ColumnBases(Column(w)) # {}
        /\ \E z1, z2 \in Internal(tree) : ann[w].r[z1] = "-" /\ ann[w].r[z2] \in bases

\* C11: the workers never write a cell of a leaf row, so the leaf rows keep
\* the input sequences; when jar has reconstructed every pattern, every cell
\* of every internal row has been written exactly once and none holds "?".
C11_WrittenOnce ==
    /\ \A row \in 1..NumTaxa : \A x \in 1..NumCols :
          nwrites[row][x] = 0 /\ out_aln[row][x] = alignment[row][x]
    /\ \A row \in DOMAIN nwrites : \A x \in 1..NumCols : nwrites[row][x] <= 1
    /\ phase = "done" =>
          \A z \in Internal(tree) : \A x \in 1..NumCols :
              nwrites[RowOf(tree, z)][x] = 1 /\ Emitted(z, x) # "?"

\* jar has ended after two workers reconstructed one pattern each
C11_Witness ==
    /\ phase = "done" /\ Len(base_patterns) >= 2
    /\ \E w1, w2 \in Workers : w1 # w2 /\ task[w1] # 0 /\ task[w2] # 0

\* the buckets that list column x, and how often bucket k lists it
BucketsOf(x) ==
    {k \in DOMAIN base_patterns : \E i \in DOMAIN base_patterns[k].cols :
                                      base_patterns[k].cols[i] = x}
TimesIn(k, x) ==
    Cardinality({i \in DOMAIN base_patterns[k].cols : base_patterns[k].cols[i] = x})

\* C12: the buckets partition the column indices of the alignment; two
\* columns share a bucket exactly when their vectors of leaf characters are
\* identical; every bucket lists its columns in strictly ascending order.
C12_PatternsPartition ==
    phase = "bpdone" =>
        LET cols == 1..Len(alignment[1])
        IN /\ \A k \in DOMAIN base_patterns :
                 \A i \in DOMAIN base_patterns[k].cols : base_patterns[k].cols[i] \in cols
           /\ \A x \in cols :
                 /\ Cardinality(BucketsOf(x)) = 1
                 /\ \A k \in BucketsOf(x) : TimesIn(k, x) = 1
           /\ \A x, y \in cols :
                 (BucketsOf(x) = BucketsOf(y))
                     <=> (ColumnOf(alignment, x) = ColumnOf(alignment, y))
           /\ \A k \in DOMAIN base_patterns :
                 \A i, j \in DOMAIN base_patterns[k].cols :
                    i < j => base_patterns[k].cols[i] < base_patterns[k].cols[j]

\* the patterns of an alignment with a repeated column that is not adjacent
\* to its first occurrence, next to other patterns
C12_Witness ==
    /\ phase = "bpdone" /\ Len(base_patterns) >= 2
    /\ \E k \in DOMAIN base_patterns :
          /\ Len(base_patterns[k].cols) >= 2
          /\ base_patterns[k].cols[2] > base_patterns[k].cols[1] + 1

====
